---- MODULE Spec2Model ----
(***************************************************************************)
(* Model of the cloudcover backend (jakewisc/cloudcover):                  *)
(*   workers/processing.py  the cloud classifier (pure functions)         *)
(*   workers/ingestion.py   discovery (get_latest_goes_file) and fetch     *)
(*                          (run_wget)                                     *)
(*   backend/main.py        the /cloud-cover request handler               *)
(*                                                                         *)
(* Conventions.                                                            *)
(*  - A band is a 2-D float grid; every reduction of the code (np.sum)     *)
(*    runs over all pixels, so a band is modelled by its flattened pixel   *)
(*    sequence.                                                            *)
(*  - A float pixel is an integer: Kelvin for the IR band, tenths of a     *)
(*    reflectance unit for the visible bands (0.3 is 3).  NaN is the       *)
(*    integer NaN below; every comparison goes through lt/gt, which give   *)
(*    FALSE on NaN as IEEE comparisons do.                                 *)
(*  - A percentage is an exact rational [nan, num, den] in lowest terms.   *)
(*  - A string is a sequence of tokens (integers); Slash is the "/" token. *)
(***************************************************************************)
EXTENDS Integers, Sequences, FiniteSets, TLC

VARIABLES
    ds,          \* classifier: the opened scan handed to the function called
    call,        \* classifier: the function called and its arguments
    ret,         \* classifier: the percentage the call returned
    day_ret,     \* classifier: the boolean is_daytime returned
    clock,       \* the current UTC time: [year, doy, hour]
    loc_out,     \* locator: what fs.ls did in the last get_latest_goes_file call
    loc_listed,  \* locator: the prefixes that call passed to fs.ls, in order
    loc_ret,     \* locator: how that call ended: [called, raised, value]
    pc,          \* request -> where the handler get_cloud_cover stands
    latest,      \* request -> the handler's variable latest
    local_file,  \* request -> the handler's variable local_file
    wget_status, \* request -> the exit statuses of the transfers it ran, in order
    loaded,      \* request -> the dataset xr.open_dataset returned (ds)
    pending,     \* request -> how the try block ended, kept through finally
    response,    \* request -> what the handler returned or raised
    trace,       \* request -> the steps the handler has taken, in order
    disk         \* the working directory: file name -> [writer, complete]

classifier_vars == <<ds, call, ret, day_ret>>
locator_vars == <<loc_out, loc_listed, loc_ret>>
request_vars == <<pc, latest, local_file, wget_status, loaded, pending, response, trace, disk>>
vars == <<ds, call, ret, day_ret, clock, loc_out, loc_listed, loc_ret,
          pc, latest, local_file, wget_status, loaded, pending, response, trace,
          disk>>

-----------------------------------------------------------------------------
(* Bounds of the model *)

\* longest band (in pixels) of a scan with visible bands
MaxPixels == 2
\* longest band (in pixels) of an IR-only scan
MaxIRPixels == 4
\* most objects one listing of the archive returns
MaxListing == 2
\* most hours the clock advances while the requests run
MaxTicks == 1

-----------------------------------------------------------------------------
(* workers/processing.py *)

\* np.nan as a pixel value
NaN == -1

isnan(x) == x = NaN

\* data < threshold on floats: FALSE when data is NaN
lt(x, t) == ~isnan(x) /\ x < t

\* data > threshold on floats: FALSE when data is NaN
gt(x, t) == ~isnan(x) /\ x > t

\* np.sum of a boolean array
np_sum(mask) == Cardinality({i \in DOMAIN mask : mask[i]})

RECURSIVE gcd(_, _)
gcd(a, b) == IF b = 0 THEN a ELSE gcd(b, a % b)

\* the value np.nan as a result
nan_result == [nan |-> TRUE, num |-> 0, den |-> 1]

\* (cloud_pixels / total_pixels) * 100, total_pixels > 0, as an exact rational
percent_of(cloud_pixels, total_pixels) ==
    LET n == 100 * cloud_pixels
        g == gcd(n, total_pixels)
    IN [nan |-> FALSE, num |-> n \div g, den |-> total_pixels \div g]

\* default arguments of the classifier functions
IR_BAND == "CMI_C13"
VIS_BANDS == <<"CMI_C02", "CMI_C03">>
IR_THRESHOLD == 280
VIS_THRESHOLD == 3

\* calc_cloud_fraction_ir with a seeded fault: NaN pixels are counted as valid
calc_cloud_fraction_ir_all_pixels(d, band, threshold) ==
    LET data == d.bands[band]
        mask == [i \in DOMAIN data |-> lt(data[i], threshold)]
        cloud_pixels == np_sum(mask)
        total_pixels == Len(data)
    IN IF total_pixels > 0 THEN percent_of(cloud_pixels, total_pixels)
       ELSE nan_result

calc_cloud_fraction_ir(d, band, threshold) ==
    LET data == d.bands[band]
        mask == [i \in DOMAIN data |-> lt(data[i], threshold)]
        cloud_pixels == np_sum(mask)
        total_pixels == np_sum([i \in DOMAIN data |-> ~isnan(data[i])])
    IN IF total_pixels > 0 THEN percent_of(cloud_pixels, total_pixels)
       ELSE nan_result

\* present_vis with a seeded fault: the loop runs over the default list, not the argument
present_vis_default_list(d, vis_bands) ==
    SelectSeq(VIS_BANDS, LAMBDA vb : vb \in DOMAIN d.bands)

\* the visible bands of vis_bands that are in the scan, in order (for vb in
\* vis_bands: if vb in ds)
present_vis(d, vis_bands) ==
    SelectSeq(vis_bands, LAMBDA vb : vb \in DOMAIN d.bands)

\* np.logical_or.reduce(vis_masks), or the all-False mask when vis_masks is empty
vis_mask_of(d, ir_data, vis_bands, vis_threshold) ==
    LET pres == present_vis(d, vis_bands)
    IN [i \in DOMAIN ir_data |->
           \E k \in DOMAIN pres : gt(d.bands[pres[k]][i], vis_threshold)]

\* calc_cloud_fraction_multiband with a seeded fault: the masks are combined with
\* logical_and
calc_cloud_fraction_multiband_and(d, ir_band, vis_bands, ir_threshold, vis_threshold) ==
    LET ir_data == d.bands[ir_band]
        ir_mask == [i \in DOMAIN ir_data |-> lt(ir_data[i], ir_threshold)]
        vis_mask == vis_mask_of(d, ir_data, vis_bands, vis_threshold)
        combined == [i \in DOMAIN ir_data |-> ir_mask[i] /\ vis_mask[i]]
        total_pixels == np_sum([i \in DOMAIN ir_data |-> ~isnan(ir_data[i])])
        cloud_pixels == np_sum(combined)
    IN IF total_pixels > 0 THEN percent_of(cloud_pixels, total_pixels)
       ELSE nan_result

calc_cloud_fraction_multiband(d, ir_band, vis_bands, ir_threshold, vis_threshold) ==
    LET ir_data == d.bands[ir_band]
        ir_mask == [i \in DOMAIN ir_data |-> lt(ir_data[i], ir_threshold)]
        vis_mask == vis_mask_of(d, ir_data, vis_bands, vis_threshold)
        combined == [i \in DOMAIN ir_data |-> ir_mask[i] \/ vis_mask[i]]
        total_pixels == np_sum([i \in DOMAIN ir_data |-> ~isnan(ir_data[i])])
        cloud_pixels == np_sum(combined)
    IN IF total_pixels > 0 THEN percent_of(cloud_pixels, total_pixels)
       ELSE nan_result

\* str.replace("Z", "+00:00") on the UTC designator of the timestamp
replace_Z(tz) == IF tz = "Z" THEN "+00:00" ELSE tz

\* the UTC offsets (whole hours) the timestamps of the model carry
utcoffset_hours(tz) ==
    CASE tz = "+00:00" -> 0
      [] tz = "-05:00" -> -5
      [] tz = "+09:00" -> 9

\* datetime.fromisoformat: an aware datetime keeping the clock fields as written
fromisoformat(ts) ==
    [hour |-> ts.hour, utcoffset |-> utcoffset_hours(replace_Z(ts.tz))]

is_daytime(d) ==
    IF "time_coverage_start" \in DOMAIN d.attrs
    THEN LET scan_start == fromisoformat(d.attrs["time_coverage_start"])
             hour == scan_start.hour
         IN 6 <= hour /\ hour <= 18
    ELSE TRUE

calc_cloud_fraction(d) ==
    IF is_daytime(d)
    THEN calc_cloud_fraction_multiband(d, IR_BAND, VIS_BANDS, IR_THRESHOLD, VIS_THRESHOLD)
    ELSE calc_cloud_fraction_ir(d, IR_BAND, IR_THRESHOLD)

-----------------------------------------------------------------------------
(* Strings: sequences of tokens *)

\* "/"
Slash == 0
\* "noaa-goes19", the default satellite
SATELLITE == 100
\* "ABI-L2-MCMIPC", the default product
PRODUCT == 101
\* "https:"
HTTPS == 102
\* ".s3.amazonaws.com"
S3_HOST == 103

\* now.strftime("%Y"), ("%j"), ("%H"): zero-padded fields, one token each
strftime_Y(now) == 10000 + now.year
strftime_j(now) == 1000 + now.doy
strftime_H(now) == 500 + now.hour

\* None; like the empty string it is falsy in "if not latest"
None == <<>>

\* Python's order on strings: a < b
RECURSIVE str_lt(_, _)
str_lt(a, b) ==
    IF b = <<>> THEN FALSE
    ELSE IF a = <<>> THEN TRUE
    ELSE IF Head(a) # Head(b) THEN Head(a) < Head(b)
    ELSE str_lt(Tail(a), Tail(b))

\* the positions of "/" in s
slashes(s) == {i \in DOMAIN s : s[i] = Slash}

min_of(S) == CHOOSE x \in S : \A y \in S : x <= y
max_of(S) == CHOOSE x \in S : \A y \in S : y <= x

\* s.split("/")[0]
split_0(s) ==
    IF slashes(s) = {} THEN s ELSE SubSeq(s, 1, min_of(slashes(s)) - 1)

\* s.split("/", 1)[1] (the entries of a listing all contain "/")
split_1_1(s) == SubSeq(s, min_of(slashes(s)) + 1, Len(s))

\* os.path.basename(s)
basename(s) ==
    IF slashes(s) = {} THEN s ELSE SubSeq(s, max_of(slashes(s)) + 1, Len(s))

-----------------------------------------------------------------------------
(* workers/ingestion.py *)

\* f"{satellite}/{product}/{year}/{day_of_year}/{hour}/"
prefix_of(product, satellite, now) ==
    <<satellite, Slash, product, Slash, strftime_Y(now), Slash,
      strftime_j(now), Slash, strftime_H(now), Slash>>

\* ls_calls with a seeded fault: an empty listing makes the function list the previous hour
ls_calls_fallback(product, satellite, now, out) ==
    IF ~out.raised /\ out.files = <<>>
    THEN <<prefix_of(product, satellite, now),
           prefix_of(product, satellite,
                     [now EXCEPT !.hour = (now.hour + 23) % 24])>>
    ELSE <<prefix_of(product, satellite, now)>>

\* the prefixes get_latest_goes_file passes to fs.ls, in order, when the (one)
\* call of fs.ls ends as out
ls_calls(product, satellite, now, out) ==
    <<prefix_of(product, satellite, now)>>

\* get_latest_goes_file with a seeded fault: files[0] is returned
get_latest_goes_file_first(out) ==
    IF out.raised THEN [called |-> TRUE, raised |-> FALSE, value |-> None]
    ELSE IF out.files = <<>>
    THEN [called |-> TRUE, raised |-> FALSE, value |-> None]
    ELSE [called |-> TRUE, raised |-> FALSE, value |-> out.files[1]]

\* get_latest_goes_file with a seeded fault: only the function's own ValueError is caught
get_latest_goes_file_reraise(out) ==
    IF out.raised THEN [called |-> TRUE, raised |-> TRUE, value |-> None]
    ELSE IF out.files = <<>>
    THEN [called |-> TRUE, raised |-> FALSE, value |-> None]
    ELSE [called |-> TRUE, raised |-> FALSE, value |-> out.files[Len(out.files)]]

\* the try block of get_latest_goes_file, given what fs.ls(prefix) did: it
\* raised (out.raised) or it returned out.files
get_latest_goes_file(out) ==
    IF out.raised
    THEN \* except Exception: return None
         [called |-> TRUE, raised |-> FALSE, value |-> None]
    ELSE IF out.files = <<>>
    THEN \* raise ValueError, caught by the same except clause
         [called |-> TRUE, raised |-> FALSE, value |-> None]
    ELSE [called |-> TRUE, raised |-> FALSE, value |-> out.files[Len(out.files)]]

\* the output path run_wget(url) downloads to (output_path=None)
output_path_of(url) == basename(url)

\* run_wget with a seeded fault: the exit status is not looked at
run_wget_unchecked(url, returncode) == output_path_of(url)

\* run_wget's return value for wget's exit status
run_wget(url, returncode) ==
    IF returncode = 0 THEN output_path_of(url) ELSE None

-----------------------------------------------------------------------------
(* The archive, as fs.ls shows it *)

\* object names under a prefix ("1" < "12" < "2" as strings)
Names == {<<1>>, <<1, 2>>, <<2>>}

\* fs.ls returns the names in sorted order (s3fs sorts the keys it lists)
SortedNameSeqs ==
    {s \in UNION {[1..n -> Names] : n \in 0..MaxListing} :
        \A i \in DOMAIN s : \A j \in DOMAIN s : i < j => str_lt(s[i], s[j])}

\* what fs.ls(prefix) can do: raise, or return the sorted keys under the prefix
LsOutcomes(prefix) ==
    {[raised |-> TRUE, files |-> <<>>]}
    \cup {[raised |-> FALSE, files |-> [i \in DOMAIN s |-> prefix \o s[i]]] :
            s \in SortedNameSeqs}

no_ls == [raised |-> FALSE, files |-> <<>>]
not_called == [called |-> FALSE, raised |-> FALSE, value |-> None]

Clocks == [year : {2025}, doy : {80, 366}, hour : 0..23]

InitLocator ==
    /\ loc_out = no_ls
    /\ loc_listed = <<>>
    /\ loc_ret = not_called

\* get_latest_goes_file() with the default product and satellite
CallGetLatest ==
    \E out \in LsOutcomes(prefix_of(PRODUCT, SATELLITE, clock)) :
        /\ loc_out' = out
        /\ loc_listed' = ls_calls(PRODUCT, SATELLITE, clock, out)
        /\ loc_ret' = get_latest_goes_file(out)
        /\ UNCHANGED <<clock, classifier_vars, request_vars>>

-----------------------------------------------------------------------------
(* Inputs of the classifier *)

\* pixel values of the IR band of an IR-only scan: NaN, colder than, equal to
\* and warmer than the thresholds
IRValues == {NaN, 270, 275, 280, 290}
\* pixel values of the IR band of a scan that may carry visible bands
IRSamples == {NaN, 270, 280}
\* pixel values of a visible band (tenths): NaN, at and above the threshold
VisValues == {NaN, 3, 5}
VisNames == {"CMI_C02", "CMI_C03"}
\* the ir thresholds a caller passes (280 is the default)
IRThresholds == {275, IR_THRESHOLD}
\* the vis_bands lists a caller passes (the last one is the default)
VisBandLists == {<<>>, <<"CMI_C02">>, <<"CMI_C03">>, VIS_BANDS}
\* the UTC designators of a time_coverage_start attribute
TZs == {"Z", "+00:00", "-05:00", "+09:00"}
Timestamps == [hour : 0..23, tz : TZs]

\* ds.attrs without / with the time_coverage_start attribute
no_attrs == <<>>
attrs_of(ts) == [a \in {"time_coverage_start"} |-> ts]

\* the data variables of a scan: the IR band and the visible bands present
bands_of(ir, P, v) ==
    [b \in {IR_BAND} \cup P |-> IF b = IR_BAND THEN ir ELSE v[b]]

\* a scan: its data variables and its attributes
scan_of(bands, attrs) == [bands |-> bands, attrs |-> attrs]

\* ds is a scan with any subset of the visible bands, all bands of the same
\* shape, taken at night or without a scan-start time
IsScanVis(d) ==
    \E n \in 0..MaxPixels, P \in SUBSET VisNames :
        \E ir \in [1..n -> IRSamples], v \in [P -> [1..n -> VisValues]],
           a \in {no_attrs, attrs_of([hour |-> 20, tz |-> "Z"])} :
            d = scan_of(bands_of(ir, P, v), a)

\* ds is a scan with the IR band only
IsScanIR(d) ==
    \E n \in 0..MaxIRPixels :
        \E ir \in [1..n -> IRValues] :
            d = scan_of(bands_of(ir, {}, <<>>), no_attrs)

\* ds is a one-pixel scan with any time_coverage_start of the model, or none
IsScanTime(d) ==
    \E ir \in {270, 290}, P \in {{}, {"CMI_C02"}},
       a \in {no_attrs} \cup {attrs_of(ts) : ts \in Timestamps} :
        d = scan_of(bands_of(<<ir>>, P, [b \in P |-> <<5>>]), a)

no_call == [fn |-> "none", ir_threshold |-> IR_THRESHOLD, vis_bands |-> VIS_BANDS,
            vis_threshold |-> VIS_THRESHOLD]

InitCalls ==
    /\ call = no_call
    /\ ret = nan_result
    /\ day_ret = FALSE

\* calc_cloud_fraction_ir(ds, threshold=t)
CallIR ==
    \E t \in IRThresholds :
        /\ call' = [no_call EXCEPT !.fn = "calc_cloud_fraction_ir", !.ir_threshold = t]
        /\ ret' = calc_cloud_fraction_ir(ds, IR_BAND, t)
        /\ day_ret' = FALSE
        /\ UNCHANGED <<ds, clock, locator_vars, request_vars>>

\* calc_cloud_fraction_multiband(ds, vis_bands=vb)
CallMultiband ==
    \E vb \in VisBandLists :
        /\ call' = [no_call EXCEPT !.fn = "calc_cloud_fraction_multiband",
                                   !.vis_bands = vb]
        /\ ret' = calc_cloud_fraction_multiband(ds, IR_BAND, vb, IR_THRESHOLD,
                                                VIS_THRESHOLD)
        /\ day_ret' = FALSE
        /\ UNCHANGED <<ds, clock, locator_vars, request_vars>>

\* calc_cloud_fraction(ds)
CallFraction ==
    /\ call' = [no_call EXCEPT !.fn = "calc_cloud_fraction"]
    /\ ret' = calc_cloud_fraction(ds)
    /\ day_ret' = FALSE
    /\ UNCHANGED <<ds, clock, locator_vars, request_vars>>

\* is_daytime(ds)
CallIsDaytime ==
    /\ call' = [no_call EXCEPT !.fn = "is_daytime"]
    /\ day_ret' = is_daytime(ds)
    /\ ret' = nan_result
    /\ UNCHANGED <<ds, clock, locator_vars, request_vars>>

NextClassifier == CallIR \/ CallMultiband \/ CallFraction \/ CallIsDaytime

-----------------------------------------------------------------------------
(* backend/main.py: GET /cloud-cover *)

\* the requests served at the same time (FastAPI runs a def handler in a
\* thread pool, one thread per request).  Each blocking call of the handler
\* (the listing, the open, the classification, the removal) is one step; the
\* transfer is two, its start and its end, because the output file changes
\* when wget starts and run_wget returns when it exits.  Steps of different
\* requests interleave freely.
Requests == {1, 2}

\* datasets xr.open_dataset can return: a night scan (one cold pixel of two),
\* a scan whose IR band is all NaN, a scan without the IR band
scan_night ==
    scan_of(bands_of(<<270, 290>>, {"CMI_C02"}, [b \in {"CMI_C02"} |-> <<5, 5>>]),
            attrs_of([hour |-> 20, tz |-> "Z"]))
scan_nan == scan_of(bands_of(<<NaN>>, {}, <<>>), no_attrs)
scan_no_ir == scan_of([b \in {"CMI_C02"} |-> <<5>>], no_attrs)
SampleScans == {scan_night, scan_nan, scan_no_ir}
no_scan == scan_of(<<>>, no_attrs)

\* IEEE-754 binary64 arithmetic on positive numbers.  A float is [m, e]: m is
\* its 53-bit significand, a sequence of bits, most significant first, and e
\* is the weight of the last bit, so that the value is m * 2^e.
MantissaBits == 53

RECURSIVE bits_of_nat(_)
bits_of_nat(n) ==
    IF n = 0 THEN <<>> ELSE Append(bits_of_nat(n \div 2), n % 2)

\* the number whose binary digits are b[1..i]
RECURSIVE nat_of_prefix(_, _)
nat_of_prefix(b, i) ==
    IF i = 0 THEN 0 ELSE 2 * nat_of_prefix(b, i - 1) + b[i]

nat_of_bits(b) == nat_of_prefix(b, Len(b))

strip_zeros(b) ==
    LET ones == {i \in DOMAIN b : b[i] = 1}
    IN IF ones = {} THEN <<>> ELSE SubSeq(b, min_of(ones), Len(b))

\* b + 1
increment(b) ==
    LET zeros == {i \in DOMAIN b : b[i] = 0}
    IN IF zeros = {} THEN <<1>> \o [i \in DOMAIN b |-> 0]
       ELSE [i \in DOMAIN b |->
                IF i < max_of(zeros) THEN b[i]
                ELSE IF i = max_of(zeros) THEN 1 ELSE 0]

\* the carry out of bit i of b in b * k, for a small k (Len(b) + 1: none yet)
RECURSIVE carry_out(_, _, _)
carry_out(b, k, i) ==
    IF i > Len(b) THEN 0 ELSE (b[i] * k + carry_out(b, k, i + 1)) \div 2

\* b * k, for a small k
times_small(b, k) ==
    bits_of_nat(carry_out(b, k, 1))
        \o [i \in DOMAIN b |-> (b[i] * k + carry_out(b, k, i + 1)) % 2]

\* the float nearest to b * 2^e (+ a non-zero amount below the last bit when
\* sticky), ties to even; b has no leading zero
round_nearest_even(b, e, sticky) ==
    IF Len(b) <= MantissaBits THEN [m |-> b, e |-> e]
    ELSE LET m == SubSeq(b, 1, MantissaBits)
             guard == b[MantissaBits + 1]
             rest == sticky \/ \E i \in (MantissaBits + 2)..Len(b) : b[i] = 1
             e2 == e + (Len(b) - MantissaBits)
             up == guard = 1 /\ (rest \/ m[MantissaBits] = 1)
             m2 == IF up THEN increment(m) ELSE m
         IN IF Len(m2) > MantissaBits
            THEN [m |-> SubSeq(m2, 1, MantissaBits), e |-> e2 + 1]
            ELSE [m |-> m2, e |-> e2]

\* the binary digits of r / t (r < t) after the point, until the quotient has
\* MantissaBits + 1 significant bits; have counts the significant bits so far
RECURSIVE fraction_bits(_, _, _, _)
fraction_bits(r, t, have, acc) ==
    IF have > MantissaBits THEN [bits |-> acc, rem |-> r]
    ELSE LET bit == IF 2 * r >= t THEN 1 ELSE 0
         IN fraction_bits(2 * r - bit * t, t,
                          IF have > 0 \/ bit = 1 THEN have + 1 ELSE 0,
                          Append(acc, bit))

\* the float c / t, for integers c > 0 and t > 0
float_div(c, t) ==
    LET int_bits == bits_of_nat(c \div t)
        frac == fraction_bits(c % t, t, Len(int_bits), <<>>)
    IN round_nearest_even(strip_zeros(int_bits \o frac.bits), -Len(frac.bits),
                          frac.rem # 0)

\* the float x * 100
float_times_100(x) ==
    round_nearest_even(strip_zeros(times_small(x.m, 100)), x.e, FALSE)

\* the integer nearest to x * 100, ties to even: what round(x, 2) keeps of x,
\* in hundredths (round() rounds the exact binary value of x correctly)
nearest_hundredth(x) ==
    LET product == times_small(x.m, 100)
        f == -x.e
        padded == [i \in 1..(IF f >= Len(product) THEN f + 1 - Len(product)
                              ELSE 0) |-> 0] \o product
        int_bits == SubSeq(padded, 1, Len(padded) - f)
        frac_bits == SubSeq(padded, Len(padded) - f + 1, Len(padded))
        whole == nat_of_bits(int_bits)
        rest == \E i \in 2..Len(frac_bits) : frac_bits[i] = 1
        up == f > 0 /\ frac_bits[1] = 1 /\ (rest \/ whole % 2 = 1)
    IN IF up THEN whole + 1 ELSE whole

\* round(float(cloud_percent), 2), in hundredths; cloud_percent is the float
\* (cloud_pixels / total_pixels) * 100, and cloud_pixels / total_pixels is
\* p.num / (100 * p.den)
round_2(p) ==
    IF p.nan THEN [nan |-> TRUE, hundredths |-> 0]
    ELSE IF p.num = 0 THEN [nan |-> FALSE, hundredths |-> 0]
    ELSE [nan |-> FALSE,
          hundredths |->
              nearest_hundredth(float_times_100(float_div(p.num, 100 * p.den)))]

no_response ==
    [kind |-> "none", error |-> "", cloud_cover_percent |-> round_2(nan_result),
     source_file |-> <<>>]
\* return {"error": msg}
error_response(msg) == [no_response EXCEPT !.kind = "returned", !.error = msg]
\* return {"cloud_cover_percent": ..., "source_file": path}
ok_response(cloud_percent, path) ==
    [no_response EXCEPT !.kind = "returned",
                        !.cloud_cover_percent = round_2(cloud_percent),
                        !.source_file = path]
\* an exception leaves the handler
raised_response == [no_response EXCEPT !.kind = "raised"]

\* url = f"https://{satellite}.s3.amazonaws.com/{path}"
url_of(path_latest) ==
    <<HTTPS, Slash, Slash>> \o split_0(path_latest) \o <<S3_HOST, Slash>>
        \o split_1_1(path_latest)

\* calc_cloud_fraction(ds) inside the try block: ds[band] raises KeyError when
\* the band is not in the dataset
try_calc_cloud_fraction(d) ==
    IF IR_BAND \in DOMAIN d.bands
    THEN [raised |-> FALSE, value |-> calc_cloud_fraction(d)]
    ELSE [raised |-> TRUE, value |-> nan_result]

StartClock == [year |-> 2025, doy |-> 80, hour |-> 12]

InitRequests ==
    /\ pc = [r \in Requests |-> "start"]
    /\ latest = [r \in Requests |-> None]
    /\ local_file = [r \in Requests |-> None]
    /\ wget_status = [r \in Requests |-> <<>>]
    /\ loaded = [r \in Requests |-> no_scan]
    /\ pending = [r \in Requests |-> no_response]
    /\ response = [r \in Requests |-> no_response]
    /\ trace = [r \in Requests |-> <<>>]
    /\ disk = <<>>

\* A file of the working directory is [writer, open, content, mixed]:
\*   writer   the request whose wget last created or truncated it;
\*   open     the requests whose wget is still writing to it, each at its own
\*            offset (a wget started earlier keeps writing where it was);
\*   mixed    transfers of different objects have been writing to it at once;
\*   content  what the bytes amount to:
\*     "partial"   a download that is not whole,
\*     "behind"    partial, and the writer has not yet written as far as an
\*                 earlier transfer of the same object had when the writer
\*                 truncated the file,
\*     "joined"    partial, and the writer has written that far,
\*     "hole"      the earlier transfer has written through to the end while
\*                 the writer was behind: zero bytes lie between the two,
\*     "complete"  byte for byte a whole download.
\* The working directory after wget -O created or truncated file f for request
\* r; same tells whether the transfers still writing to f fetch r's object.
open_file(d, f, r, same) ==
    LET others == IF f \in DOMAIN d THEN d[f].open ELSE {}
    IN [x \in DOMAIN d \cup {f} |->
          IF x = f
          THEN [writer |-> r,
                open |-> others \cup {r},
                content |-> IF others # {} /\ same THEN "behind" ELSE "partial",
                mixed |-> others # {} /\ ~same]
          ELSE d[x]]

\* the working directory after os.remove(f), f present
remove_file(d, f) == [x \in DOMAIN d \ {f} |-> d[x]]

\* latest = get_latest_goes_file(); if not latest: return {"error": ...}
Locate(r) ==
    /\ pc[r] = "start"
    /\ \E out \in LsOutcomes(prefix_of(PRODUCT, SATELLITE, clock)) :
         LET found == get_latest_goes_file(out).value
         IN /\ latest' = [latest EXCEPT ![r] = found]
            /\ IF found = None
               THEN /\ response' = [response EXCEPT ![r] =
                                      error_response("No recent GOES files found")]
                    /\ pc' = [pc EXCEPT ![r] = "done"]
               ELSE /\ pc' = [pc EXCEPT ![r] = "located"]
                    /\ UNCHANGED response
    /\ trace' = [trace EXCEPT ![r] = Append(@, "locate")]
    /\ UNCHANGED <<local_file, wget_status, loaded, pending, disk, clock,
                   classifier_vars, locator_vars>>

\* the working directory when the wget of request r, writing to file f, exits
\* with status returncode.  A file that was removed, or removed and created
\* again, under the transfer is not touched.  Otherwise, on status 0 the
\* transfer has written through to the end of the object: the file is whole
\* when r's wget wrote it from the start (it is the writer) or when the writer
\* has written as far as r's wget had before the truncation ("joined"), and
\* has a hole when the writer is still behind.  On another status the bytes
\* stay as they are.  What a file mixed from different objects holds is
\* settled by the writes (Transfer), not by the exit.
finish_file(d, f, r, returncode) ==
    IF f \notin DOMAIN d \/ r \notin d[f].open
    THEN d
    ELSE LET file == d[f]
             left == file.open \ {r}
             content ==
                 CASE file.mixed \/ file.content = "complete" -> file.content
                   [] returncode = 0
                      /\ (file.writer = r \/ file.content = "joined") -> "complete"
                   [] returncode = 0 -> "hole"
                   [] /\ file.writer # r
                      /\ left \ {file.writer} = {}
                      /\ file.content \in {"behind", "joined"} -> "partial"
                   [] OTHER -> file.content
         IN [d EXCEPT ![f] = [file EXCEPT !.open = left, !.content = content]]

\* local_file = run_wget(url), up to the point where subprocess.run blocks:
\*   "raise"  wget cannot be started: subprocess.run raises and the exception
\*            leaves the handler (the call is outside try/finally);
\*   "open"   wget -O creates or truncates the output file and transfers;
\*   "fail"   wget exits non-zero without touching the output file (it could
\*            not open it): run_wget returns None at once
FetchStart(r) ==
    /\ pc[r] = "located"
    /\ \E started \in {"raise", "open", "fail"} :
         LET url == url_of(latest[r])
         IN CASE started = "raise" ->
                   /\ response' = [response EXCEPT ![r] = raised_response]
                   /\ pc' = [pc EXCEPT ![r] = "done"]
                   /\ UNCHANGED <<disk, local_file, wget_status>>
              [] started = "open" ->
                   /\ LET f == output_path_of(url)
                          others == IF f \in DOMAIN disk THEN disk[f].open
                                    ELSE {}
                      IN disk' = open_file(disk, f, r,
                                           \A q \in others :
                                               url_of(latest[q]) = url)
                   /\ pc' = [pc EXCEPT ![r] = "fetching"]
                   /\ UNCHANGED <<response, local_file, wget_status>>
              [] started = "fail" ->
                   /\ local_file' = [local_file EXCEPT ![r] = run_wget(url, 1)]
                   /\ wget_status' = [wget_status EXCEPT ![r] = Append(@, 1)]
                   /\ response' = [response EXCEPT ![r] =
                                     error_response("Failed to download GOES file")]
                   /\ pc' = [pc EXCEPT ![r] = "done"]
                   /\ UNCHANGED disk
    /\ trace' = [trace EXCEPT ![r] = Append(@, "fetch")]
    /\ UNCHANGED <<latest, loaded, pending, clock, classifier_vars, locator_vars>>

\* wget exits: run_wget returns; if not local_file: return {"error": ...}
FetchEnd(r) ==
    /\ pc[r] = "fetching"
    /\ \E returncode \in {0, 1} :
         LET url == url_of(latest[r])
             got == run_wget(url, returncode)
         IN /\ disk' = finish_file(disk, output_path_of(url), r, returncode)
            /\ local_file' = [local_file EXCEPT ![r] = got]
            /\ wget_status' = [wget_status EXCEPT ![r] = Append(@, returncode)]
            /\ IF got = None
               THEN /\ response' = [response EXCEPT ![r] =
                                      error_response("Failed to download GOES file")]
                    /\ pc' = [pc EXCEPT ![r] = "done"]
               ELSE /\ pc' = [pc EXCEPT ![r] = "fetched"]
                    /\ UNCHANGED response
    /\ UNCHANGED <<latest, loaded, pending, trace, clock, classifier_vars,
                   locator_vars>>

\* wget, inside subprocess.run, writes on.  The writer of a file reaches the
\* offset an earlier transfer of the same object had before the truncation
\* ("behind" becomes "joined", a "hole" is filled); a write to a file mixed
\* from different objects makes or unmakes a whole download.
Transfer(r) ==
    /\ pc[r] = "fetching"
    /\ LET f == output_path_of(url_of(latest[r]))
       IN /\ f \in DOMAIN disk
          /\ r \in disk[f].open
          /\ \/ /\ disk[f].mixed
                /\ disk' = [disk EXCEPT ![f].content =
                               IF @ = "complete" THEN "partial" ELSE "complete"]
             \/ /\ ~disk[f].mixed
                /\ disk[f].writer = r
                /\ disk[f].content \in {"behind", "hole"}
                /\ disk' = [disk EXCEPT ![f].content =
                               IF @ = "behind" THEN "joined" ELSE "complete"]
    /\ UNCHANGED <<pc, latest, local_file, wget_status, loaded, pending, response,
                   trace, clock, classifier_vars, locator_vars>>

\* ds = xr.open_dataset(local_file): raises when the file is gone or is not a
\* complete download, and may raise on any file (no validation of the content)
Load(r) ==
    /\ pc[r] = "fetched"
    /\ \E ok \in BOOLEAN, d \in SampleScans :
         /\ ok => local_file[r] \in DOMAIN disk /\ disk[local_file[r]].content = "complete"
         /\ ~ok => d = scan_nan
         /\ IF ok
            THEN /\ loaded' = [loaded EXCEPT ![r] = d]
                 /\ pc' = [pc EXCEPT ![r] = "loaded"]
                 /\ UNCHANGED pending
            ELSE /\ pending' = [pending EXCEPT ![r] = raised_response]
                 /\ pc' = [pc EXCEPT ![r] = "cleanup"]
                 /\ UNCHANGED loaded
    /\ trace' = [trace EXCEPT ![r] = Append(@, "load")]
    /\ UNCHANGED <<latest, local_file, wget_status, response, disk, clock,
                   classifier_vars, locator_vars>>

\* cloud_percent = calc_cloud_fraction(ds); return {...}
Classify(r) ==
    /\ pc[r] = "loaded"
    /\ LET got == try_calc_cloud_fraction(loaded[r])
       IN pending' = [pending EXCEPT ![r] =
                        IF got.raised THEN raised_response
                        ELSE ok_response(got.value, split_1_1(latest[r]))]
    /\ pc' = [pc EXCEPT ![r] = "cleanup"]
    /\ trace' = [trace EXCEPT ![r] = Append(@, "classify")]
    /\ UNCHANGED <<latest, local_file, wget_status, loaded, response, disk, clock,
                   classifier_vars, locator_vars>>

\* finally: os.remove(local_file); a missing file makes os.remove raise
\* FileNotFoundError, which replaces the result of the try block
Remove(r) ==
    /\ pc[r] = "cleanup"
    /\ IF local_file[r] \in DOMAIN disk
       THEN /\ disk' = remove_file(disk, local_file[r])
            /\ response' = [response EXCEPT ![r] = pending[r]]
       ELSE /\ response' = [response EXCEPT ![r] = raised_response]
            /\ UNCHANGED disk
    /\ pc' = [pc EXCEPT ![r] = "done"]
    /\ trace' = [trace EXCEPT ![r] = Append(@, "remove")]
    /\ UNCHANGED <<latest, local_file, wget_status, loaded, pending, clock,
                   classifier_vars, locator_vars>>

\* an hour of UTC time passes
Tick ==
    /\ clock.hour < StartClock.hour + MaxTicks
    /\ clock' = [clock EXCEPT !.hour = @ + 1]
    /\ UNCHANGED <<classifier_vars, locator_vars, request_vars>>

-----------------------------------------------------------------------------
(* Specifications *)

Init ==
    /\ ds = no_scan /\ InitCalls
    /\ clock = StartClock
    /\ InitLocator
    /\ InitRequests

Next ==
    \/ \E r \in Requests : Locate(r)
    \/ \E r \in Requests : FetchStart(r)
    \/ \E r \in Requests : Transfer(r)
    \/ \E r \in Requests : FetchEnd(r)
    \/ \E r \in Requests : Load(r)
    \/ \E r \in Requests : Classify(r)
    \/ \E r \in Requests : Remove(r)
    \/ Tick

\* the request handler, two requests at a time
Spec == Init /\ [][Next]_vars

InitLocate ==
    /\ ds = no_scan /\ InitCalls
    /\ clock \in Clocks
    /\ InitLocator
    /\ InitRequests

\* get_latest_goes_file at any hour, on any listing
SpecLocate == InitLocate /\ [][CallGetLatest]_vars

InitClassify ==
    IsScanVis(ds) /\ InitCalls /\ clock = StartClock /\ InitLocator /\ InitRequests
InitIR ==
    IsScanIR(ds) /\ InitCalls /\ clock = StartClock /\ InitLocator /\ InitRequests
InitDaytime ==
    IsScanTime(ds) /\ InitCalls /\ clock = StartClock /\ InitLocator /\ InitRequests

\* the classifier functions on scans with visible bands, on IR-only scans, and
\* on scans with every scan-start time
SpecClassify == InitClassify /\ [][NextClassifier]_vars
SpecIR == InitIR /\ [][NextClassifier]_vars
SpecDaytime == InitDaytime /\ [][NextClassifier]_vars

-----------------------------------------------------------------------------
(* Claims about the classifier *)

FractionFns == {"calc_cloud_fraction_ir", "calc_cloud_fraction_multiband",
                "calc_cloud_fraction"}

\* the result r is the rational n / d (d > 0)
IsRatio(r, n, d) == ~r.nan /\ r.den > 0 /\ r.num * d = n * r.den

\* C2: the percentage returned by calc_cloud_fraction, calc_cloud_fraction_ir
\* and calc_cloud_fraction_multiband is NaN or a number in [0, 100].
C2_PercentInRange ==
    call.fn \in FractionFns =>
        ret.nan \/ (0 <= ret.num /\ ret.num <= 100 * ret.den)

\* the pixels of the IR band that are not NaN
ValidPixels == {i \in DOMAIN ds.bands[IR_BAND] : ds.bands[IR_BAND][i] # NaN}

\* the pixels of the IR band that are a number strictly below threshold t
ColdPixels(t) == {i \in ValidPixels : ds.bands[IR_BAND][i] < t}

\* C5: calc_cloud_fraction_ir counts a pixel as cloudy iff its value is strictly
\* below the threshold (never a NaN pixel), counts the non-NaN pixels as valid,
\* and returns 100 * cloudy / valid when valid > 0 and NaN when valid = 0.
C5_IRFraction ==
    call.fn = "calc_cloud_fraction_ir" =>
        IF ValidPixels = {}
        THEN ret = nan_result
        ELSE IsRatio(ret, 100 * Cardinality(ColdPixels(call.ir_threshold)),
                     Cardinality(ValidPixels))

\* C5 witness: [270, 290, NaN, 275] at threshold 280 gives 2 of 3, i.e. 200/3
C5_Witness ==
    /\ call.fn = "calc_cloud_fraction_ir"
    /\ call.ir_threshold = 280
    /\ ds.bands[IR_BAND] = <<270, 290, NaN, 275>>
    /\ Cardinality(ColdPixels(280)) = 2
    /\ Cardinality(ValidPixels) = 3
    /\ ret = [nan |-> FALSE, num |-> 200, den |-> 3]

\* the pixels at which a configured visible band that is present in the scan
\* holds a number strictly above threshold t
BrightPixels(cfg, t) ==
    {i \in DOMAIN ds.bands[IR_BAND] :
        \E k \in DOMAIN cfg :
            /\ cfg[k] \in DOMAIN ds.bands
            /\ ds.bands[cfg[k]][i] # NaN
            /\ ds.bands[cfg[k]][i] > t}

\* C6: calc_cloud_fraction_multiband counts a pixel as cloudy iff it is IR-cold
\* or some configured visible band present in the scan exceeds vis_threshold
\* there; the denominator is the number of non-NaN pixels of the IR band only;
\* the result is 100 * cloudy / denominator, or NaN when the denominator is 0.
C6_MultibandFraction ==
    call.fn = "calc_cloud_fraction_multiband" =>
        LET cloudy == ColdPixels(call.ir_threshold)
                        \cup BrightPixels(call.vis_bands, call.vis_threshold)
        IN IF ValidPixels = {}
           THEN ret = nan_result
           ELSE IsRatio(ret, 100 * Cardinality(cloudy), Cardinality(ValidPixels))

\* C6 witness: IR [280, 270] and one visible band [0.3, 0.5]: the first pixel
\* is neither cold nor bright, the second is both: 50%
C6_Witness ==
    /\ call.fn = "calc_cloud_fraction_multiband"
    /\ call.vis_bands = <<"CMI_C02">>
    /\ ds.bands[IR_BAND] = <<280, 270>>
    /\ DOMAIN ds.bands = {IR_BAND, "CMI_C02"}
    /\ ds.bands["CMI_C02"] = <<3, 5>>
    /\ ret = [nan |-> FALSE, num |-> 50, den |-> 1]

\* C7 as claimed: whenever a configured visible band is absent from the scan,
\* calc_cloud_fraction_multiband returns what calc_cloud_fraction_ir returns.
C7_SomeAbsentSameAsIR ==
    (/\ call.fn = "calc_cloud_fraction_multiband"
     /\ \E k \in DOMAIN call.vis_bands : call.vis_bands[k] \notin DOMAIN ds.bands)
    => ret = calc_cloud_fraction_ir(ds, IR_BAND, call.ir_threshold)

\* C7 as amended: whenever every configured visible band is absent from the
\* scan, calc_cloud_fraction_multiband returns what calc_cloud_fraction_ir
\* returns on the same IR band and threshold.
C7_AllAbsentSameAsIR ==
    (/\ call.fn = "calc_cloud_fraction_multiband"
     /\ \A k \in DOMAIN call.vis_bands : call.vis_bands[k] \notin DOMAIN ds.bands)
    => ret = calc_cloud_fraction_ir(ds, IR_BAND, call.ir_threshold)

\* C7 witness: the one configured band is absent while the scan carries another,
\* bright, visible band; the result is the IR-only 50%
C7_Witness ==
    /\ call.fn = "calc_cloud_fraction_multiband"
    /\ call.vis_bands = <<"CMI_C03">>
    /\ DOMAIN ds.bands = {IR_BAND, "CMI_C02"}
    /\ ds.bands[IR_BAND] = <<270, 280>>
    /\ ds.bands["CMI_C02"] = <<5, 5>>
    /\ ret = [nan |-> FALSE, num |-> 50, den |-> 1]

\* the hour, in UTC, of the instant a timestamp denotes
UtcHour(ts) ==
    LET off == CASE ts.tz \in {"Z", "+00:00"} -> 0
                 [] ts.tz = "-05:00" -> -5
                 [] ts.tz = "+09:00" -> 9
    IN (ts.hour - off) % 24

\* C8: is_daytime is true without time_coverage_start, and with it true iff the
\* UTC hour of that instant is in [6, 18]; calc_cloud_fraction takes the
\* multiband path exactly when is_daytime is true, the IR-only path otherwise.
C8_DaytimeIffUtcHour ==
    LET day == IF "time_coverage_start" \in DOMAIN ds.attrs
               THEN LET h == UtcHour(ds.attrs["time_coverage_start"])
                    IN 6 <= h /\ h <= 18
               ELSE TRUE
    IN /\ call.fn = "is_daytime" => day_ret = day
       /\ call.fn = "calc_cloud_fraction" =>
            ret = IF day
                  THEN calc_cloud_fraction_multiband(ds, IR_BAND, VIS_BANDS,
                                                     IR_THRESHOLD, VIS_THRESHOLD)
                  ELSE calc_cloud_fraction_ir(ds, IR_BAND, IR_THRESHOLD)

-----------------------------------------------------------------------------
(* Claims about discovery *)

\* a <= b in Python's order on strings
str_le(a, b) == a = b \/ str_lt(a, b)

Range(f) == {f[i] : i \in DOMAIN f}

\* C3: on an empty listing get_latest_goes_file returns None; on a non-empty
\* listing it returns the lexicographically maximal entry of the listing.
C3_LatestIsMaximal ==
    (loc_ret.called /\ ~loc_out.raised) =>
        IF loc_out.files = <<>>
        THEN ~loc_ret.raised /\ loc_ret.value = None
        ELSE /\ ~loc_ret.raised
             /\ loc_ret.value \in Range(loc_out.files)
             /\ \A f \in Range(loc_out.files) : str_le(f, loc_ret.value)

\* C3 witness: of the entries ".../1" and ".../12" the second is returned
C3_Witness ==
    /\ loc_ret.called
    /\ Len(loc_out.files) = 2
    /\ basename(loc_out.files[1]) = <<1>>
    /\ basename(loc_out.files[2]) = <<1, 2>>
    /\ loc_ret.value = loc_out.files[2]

\* C4: get_latest_goes_file never raises; a failure of the archive access is
\* reported as None, as an empty listing is; on either outcome exactly the
\* prefix of the current UTC year, day of year and hour was listed.
C4_NoRaiseNoFallback ==
    loc_ret.called =>
        /\ ~loc_ret.raised
        /\ (loc_out.raised \/ loc_out.files = <<>>) => loc_ret.value = None
        /\ loc_listed = <<prefix_of(PRODUCT, SATELLITE, clock)>>

\* C4 witness: fs.ls raised, None came back, one prefix was listed
C4_Witness ==
    /\ loc_ret.called
    /\ loc_out.raised
    /\ loc_ret = [called |-> TRUE, raised |-> FALSE, value |-> None]
    /\ Len(loc_listed) = 1

-----------------------------------------------------------------------------
(* Claims about the request handler *)

\* the files of the working directory last written by a transfer of request r
FilesWrittenBy(r) == {f \in DOMAIN disk : disk[f].writer = r}

\* C1: once a request has completed, on whichever path, the local path its
\* fetch step wrote to no longer exists.
C1_ArtifactRemoved ==
    \A r \in Requests : pc[r] = "done" => FilesWrittenBy(r) = {}

\* the steps of a trace other than the removal of the artifact
StepsBeforeRemove(t) == SelectSeq(t, LAMBDA e : e # "remove")

PipelineOrder == <<"locate", "fetch", "load", "classify">>

\* C9: the steps of a request occur in the order locate, fetch, load, classify
\* with one transfer attempt; fetch starts only after discovery returned an
\* object, load and classify only after the transfer returned status zero; a
\* discovery failure and a non-zero transfer status each end the request with
\* their error value, returned and not raised.
C9_PipelineOrder ==
    \A r \in Requests :
        LET steps == StepsBeforeRemove(trace[r])
            has(e) == \E i \in DOMAIN trace[r] : trace[r][i] = e
        IN /\ Len(steps) <= Len(PipelineOrder)
           /\ \A i \in DOMAIN steps : steps[i] = PipelineOrder[i]
           /\ Len(wget_status[r]) <= 1
           /\ wget_status[r] # <<>> => has("fetch")
           /\ has("fetch") => latest[r] # None
           /\ has("load") => wget_status[r] = <<0>>
           /\ (pc[r] = "done" /\ latest[r] = None) =>
                /\ trace[r] = <<"locate">>
                /\ response[r] = error_response("No recent GOES files found")
           /\ (pc[r] = "done" /\ wget_status[r] # <<>> /\ wget_status[r] # <<0>>) =>
                /\ trace[r] = <<"locate", "fetch">>
                /\ response[r] = error_response("Failed to download GOES file")

\* C9 witness: one request ran all the steps and returned 50.0, the other ended
\* on a failed transfer
C9_Witness ==
    \E r \in Requests, q \in Requests :
        /\ trace[r] = <<"locate", "fetch", "load", "classify", "remove">>
        /\ response[r].kind = "returned"
        /\ response[r].cloud_cover_percent = [nan |-> FALSE, hundredths |-> 5000]
        /\ pc[q] = "done"
        /\ wget_status[q] = <<1>>
        /\ response[q] = error_response("Failed to download GOES file")

\* the requests that hold a fetched artifact they have not removed yet
Holding(r) == pc[r] \in {"fetched", "loaded", "cleanup"}

\* C10: interleaved requests have artifacts with distinct file names, and the
\* file a request fetched exists, unmodified by the other request, from its
\* successful fetch until its own removal step.
C10_IndependentArtifacts ==
    \A r \in Requests :
        Holding(r) =>
            /\ local_file[r] \in DOMAIN disk
            /\ disk[local_file[r]].writer = r
            /\ disk[local_file[r]].content = "complete"
            /\ \A q \in Requests \ {r} :
                 Holding(q) => local_file[q] # local_file[r]

====
